---- MODULE Spec2Model ----
(***************************************************************************)
(* Disk-backed, expiry- and ETag-aware content cache (src/api/cache.rs).   *)
(*                                                                         *)
(* The cache root directory is a map from file names to byte strings; the  *)
(* clock is std::time::SystemTime, a Duration since the Unix epoch with    *)
(* sub-second resolution, counted here in ticks of 1/TicksPerSec second.   *)
(* faults is the environment's part: the paths whose reads and whose       *)
(* removals fail for a reason other than not-found.  calls holds the       *)
(* get_or_write calls in flight when calls overlap, resized the argument    *)
(* and the result of SongBatch::resize (src/app/models/main.rs).           *)
(* A file name is a sequence of symbols: the characters of the resource    *)
(* key, one symbol each, and the suffix ".expiry" as one symbol.  A byte   *)
(* string is a sequence of numbers 0..255.                                 *)
(***************************************************************************)
EXTENDS Integers, Sequences, FiniteSets, TLC

VARIABLES files, now, last, faults, calls, resized

vars == <<files, now, last, faults, calls, resized>>

(***************************************************************************)
(* Bounds of the model.                                                    *)
(***************************************************************************)
TicksPerSec == 2     \* clock ticks per second (sub-second resolution)
MaxNow == 3          \* the clock runs from tick 0 to tick MaxNow
MaxDur == 2          \* expiry instants handed in by callers: 0..MaxDur ticks
MaxCalls == 2        \* get_or_write calls that may overlap
MaxSongs == 4        \* a SongBatch holds 0..MaxSongs songs
MaxBatchSize == 3    \* batch sizes, stored and requested: 0..MaxBatchSize
MaxOffset == 1       \* a Batch starts at offset 0..MaxOffset
MaxTotal == 1        \* a Batch records a total of 0..MaxTotal

(***************************************************************************)
(* Program constants and value constructors.                               *)
(***************************************************************************)
EXPIRY_FILE_EXT == <<".expiry">>

OFFSET == 8          \* size_of::<u64>()

\* Option<T>: None is the empty sequence, Some(v) the one-element sequence.
None == <<>>
Some(v) == <<v>>

Ok(v) == [ok |-> TRUE, val |-> v]
Err(e) == [ok |-> FALSE, err |-> e]

\* enum CacheFile
Fresh(buf) == [tag |-> "Fresh", buf |-> buf]
Expired(buf, etag) == [tag |-> "Expired", buf |-> buf, etag |-> etag]
CacheFileNone == [tag |-> "None"]

\* enum CachePolicy
CachePolicy == {"Default", "IgnoreExpiry", "Revalidate", "IgnoreCached"}

\* enum CacheExpiry; a Duration is a number of ticks
Never == [tag |-> "Never"]
AtUnixTimestamp(duration, etag) ==
    [tag |-> "AtUnixTimestamp", duration |-> duration, etag |-> etag]

\* enum FetchResult, and the error a fetch callback may return instead
NotModified(expiry) == [tag |-> "NotModified", expiry |-> expiry]
Modified(fresh, expiry) == [tag |-> "Modified", fresh |-> fresh, expiry |-> expiry]
FetchFailed == [tag |-> "FetchFailed"]
\* no answer: the callback is not invoked
NotFetched == [tag |-> "NotFetched"]

(***************************************************************************)
(* Durations and the byte-level codecs of the standard library.            *)
(***************************************************************************)
\* Duration::as_secs: whole seconds, the sub-second part is dropped
as_secs(d) == d \div TicksPerSec

\* Duration::from_secs
from_secs(s) == s * TicksPerSec

\* u64::to_be_bytes: 8 bytes, most significant first.  Seconds of the model
\* stay below 2^31, so the four high bytes are always zero.
to_be_bytes(n) ==
    [i \in 1..OFFSET |-> IF i <= 4 THEN 0 ELSE (n \div (256 ^ (OFFSET - i))) % 256]

\* u64::from_be_bytes of 8 bytes whose four high bytes are zero
from_be_bytes(b) ==
    b[5] * (256 ^ 3) + b[6] * (256 ^ 2) + b[7] * 256 + b[8]

\* String::into_bytes: a String is its UTF-8 bytes
into_bytes(s) == s

\* String::from_utf8(..).ok(): bytes below 128 are one-byte code points; a
\* byte of 128 or more that no lead byte introduces is invalid.
from_utf8_ok(b) ==
    IF \A i \in 1..Len(b) : b[i] < 128 THEN Some(b) ELSE None

(***************************************************************************)
(* impl CacheExpiry                                                        *)
(***************************************************************************)
\* CacheExpiry::expire_in_seconds, called when the clock shows t
expire_in_seconds(seconds, etag, t) ==
    AtUnixTimestamp(t + from_secs(seconds), etag)

is_expired_nonstrict(expiry, t) ==
    IF expiry.tag = "Never" THEN FALSE ELSE t >= expiry.duration

\* CacheExpiry::is_expired, evaluated when the clock shows t
is_expired(expiry, t) ==
    IF expiry.tag = "Never" THEN FALSE ELSE t > expiry.duration

\* CacheExpiry::etag
etag_of(expiry) ==
    IF expiry.tag = "Never" THEN None ELSE expiry.etag

(***************************************************************************)
(* Paths and the file system.  fs = [files, written]: the directory and    *)
(* the set of paths the running operation has written or removed.          *)
(***************************************************************************)
cache_path(resource) == resource

cache_meta_path(resource) == resource \o EXPIRY_FILE_EXT

\* async_std::fs::read: io::ErrorKind::NotFound for a missing file, another
\* kind of error for an existing file the environment refuses to read
fs_read(f, path) ==
    IF path \notin DOMAIN f THEN Err("NotFound")
    ELSE IF path \in faults.read THEN Err("Other")
    ELSE Ok(f[path])

\* async_std::fs::write: creates or truncates the file
fs_write(fs, path, content) ==
    [files |-> [p \in DOMAIN fs.files \cup {path} |->
                    IF p = path THEN content ELSE fs.files[p]],
     written |-> fs.written \cup {path}]

\* whether async_std::fs::remove_file(path) returns Ok
removable(fs, path) == path \in DOMAIN fs.files /\ path \notin faults.remove

\* async_std::fs::remove_file on a file it can remove
fs_remove_file(fs, path) ==
    [files |-> [p \in DOMAIN fs.files \ {path} |-> fs.files[p]],
     written |-> fs.written \cup {path}]

(***************************************************************************)
(* impl CacheManager: reads                                                *)
(***************************************************************************)
\* CacheManager::read_expiry_file.  Slicing buffer[..OFFSET] panics on a
\* metadata file shorter than OFFSET bytes.
read_expiry_file(f, resource) ==
    LET r == fs_read(f, cache_meta_path(resource)) IN
    IF ~r.ok
    THEN (IF r.err = "NotFound" THEN Ok(Never) ELSE Err("ReadError"))
    ELSE LET buffer == r.val IN
         IF Len(buffer) < OFFSET THEN Err("Panic")
         ELSE LET duration == from_secs(from_be_bytes(SubSeq(buffer, 1, OFFSET)))
                  etag == from_utf8_ok(SubSeq(buffer, OFFSET + 1, Len(buffer)))
              IN Ok(AtUnixTimestamp(duration, etag))

\* CacheManager::read_cache_file, evaluated when the clock shows t
read_cache_file(f, resource, policy, t) ==
    IF policy = "IgnoreCached" THEN Ok(CacheFileNone)
    ELSE LET file == fs_read(f, cache_path(resource))
             expiry == read_expiry_file(f, resource)
         IN IF ~expiry.ok /\ expiry.err = "Panic" THEN expiry
            ELSE IF file.ok
            THEN CASE policy = "IgnoreExpiry" -> Ok(Fresh(file.val))
                   [] policy = "Revalidate" ->
                        LET e == IF expiry.ok THEN expiry.val ELSE Never
                        IN Ok(Expired(file.val, etag_of(e)))
                   [] policy = "Default" ->
                        IF ~expiry.ok THEN expiry
                        ELSE IF is_expired(expiry.val, t)
                             THEN Ok(Expired(file.val, etag_of(expiry.val)))
                             ELSE Ok(Fresh(file.val))
            ELSE IF file.err = "NotFound" THEN Ok(CacheFileNone)
                 ELSE Err("ReadError")

(***************************************************************************)
(* impl CacheManager: writes                                               *)
(***************************************************************************)
\* CacheManager::set_expiry_for_path: writes nothing for CacheExpiry::Never
set_expiry_for_path(fs, path, expiry) ==
    IF expiry.tag = "AtUnixTimestamp"
    THEN LET secs == to_be_bytes(as_secs(expiry.duration))
             content == IF expiry.etag # None
                        THEN secs \o into_bytes(expiry.etag[1])
                        ELSE secs
         IN fs_write(fs, path, content)
    ELSE fs

write_cache_file_create_new(fs, resource, content, expiry) ==
    set_expiry_for_path(
        IF cache_path(resource) \in DOMAIN fs.files THEN fs
        ELSE fs_write(fs, cache_path(resource), content),
        cache_meta_path(resource), expiry)

\* CacheManager::write_cache_file: the two writes go to different paths
write_cache_file(fs, resource, content, expiry) ==
    set_expiry_for_path(fs_write(fs, cache_path(resource), content),
                        cache_meta_path(resource), expiry)

get_or_write_expired_rewrite(fs, resource, buf, etag, fr) ==
    CASE fr.tag = "FetchFailed" ->
            [fs |-> fs, ret |-> Err("FetchError"), fetched |-> <<etag>>]
      [] fr.tag = "NotModified" ->
            [fs |-> write_cache_file(fs, resource, buf, fr.expiry),
             ret |-> Ok(buf), fetched |-> <<etag>>]
      [] fr.tag = "Modified" ->
            [fs |-> write_cache_file(fs, resource, fr.fresh, fr.expiry),
             ret |-> Ok(fr.fresh), fetched |-> <<etag>>]

\* get_or_write, the arm CacheFile::Expired(buf, etag); fr is what the fetch
\* callback answers.  fetched lists the arguments of the callback's
\* invocations.
get_or_write_expired(fs, resource, buf, etag, fr) ==
    CASE fr.tag = "FetchFailed" ->
            [fs |-> fs, ret |-> Err("FetchError"), fetched |-> <<etag>>]
      [] fr.tag = "NotModified" ->
            [fs |-> set_expiry_for_path(fs, cache_meta_path(resource), fr.expiry),
             ret |-> Ok(buf), fetched |-> <<etag>>]
      [] fr.tag = "Modified" ->
            [fs |-> write_cache_file(fs, resource, fr.fresh, fr.expiry),
             ret |-> Ok(fr.fresh), fetched |-> <<etag>>]

get_or_write_none_persist(fs, resource, fr) ==
    CASE fr.tag = "FetchFailed" ->
            [fs |-> fs, ret |-> Err("FetchError"), fetched |-> <<None>>]
      [] fr.tag = "NotModified" ->
            [fs |-> set_expiry_for_path(fs, cache_meta_path(resource), fr.expiry),
             ret |-> Err("NoContent"), fetched |-> <<None>>]
      [] fr.tag = "Modified" ->
            [fs |-> write_cache_file(fs, resource, fr.fresh, fr.expiry),
             ret |-> Ok(fr.fresh), fetched |-> <<None>>]

\* get_or_write, the arm CacheFile::None
get_or_write_none(fs, resource, fr) ==
    CASE fr.tag = "FetchFailed" ->
            [fs |-> fs, ret |-> Err("FetchError"), fetched |-> <<None>>]
      [] fr.tag = "NotModified" ->
            [fs |-> fs, ret |-> Err("NoContent"), fetched |-> <<None>>]
      [] fr.tag = "Modified" ->
            [fs |-> write_cache_file(fs, resource, fr.fresh, fr.expiry),
             ret |-> Ok(fr.fresh), fetched |-> <<None>>]

get_or_write_fresh_refetch(fs, buf) ==
    [fs |-> fs, ret |-> Ok(buf), fetched |-> <<None>>]

\* get_or_write, the arm CacheFile::Fresh(buf): fetch is not called
get_or_write_fresh(fs, buf) ==
    [fs |-> fs, ret |-> Ok(buf), fetched |-> <<>>]

\* CacheManager::get_or_write, called when the clock shows t; read is what
\* its read step returned
get_or_write(fs, resource, policy, fr, t) ==
    LET file == read_cache_file(fs.files, resource, policy, t) IN
    LET r == IF ~file.ok THEN [fs |-> fs, ret |-> file, fetched |-> <<>>]
             ELSE CASE file.val.tag = "Fresh" ->
                        get_or_write_fresh(fs, file.val.buf)
                    [] file.val.tag = "Expired" ->
                        get_or_write_expired(fs, resource, file.val.buf,
                                             file.val.etag, fr)
                    [] file.val.tag = "None" ->
                        get_or_write_none(fs, resource, fr)
    IN [fs |-> r.fs, ret |-> r.ret, fetched |-> r.fetched, read |-> file]

(***************************************************************************)
(* impl CacheManager: pattern maintenance                                  *)
(***************************************************************************)
\* Regex::is_match for the patterns ^c (name starts with c) and c$ (name
\* ends with c, where c may be the metadata suffix)
is_match(regex, s) ==
    /\ Len(s) > 0
    /\ IF regex.anchor = "start" THEN s[1] = regex.ch ELSE s[Len(s)] = regex.ch

\* str::strip_suffix
strip_suffix(s, suffix) ==
    IF /\ Len(s) >= Len(suffix)
       /\ SubSeq(s, Len(s) - Len(suffix) + 1, Len(s)) = suffix
    THEN Some(SubSeq(s, 1, Len(s) - Len(suffix)))
    ELSE None

RECURSIVE clear_entries_strict(_, _, _, _)
clear_entries_strict(fs, regex, entries, stale) ==
    IF entries = {} THEN {[fs |-> fs, ret |-> Ok(<<>>)]}
    ELSE UNION {
        IF ~stale /\ entry \notin DOMAIN fs.files
        THEN clear_entries_strict(fs, regex, entries \ {entry}, stale)
        ELSE IF is_match(regex, entry)
        THEN IF ~removable(fs, entry)
             THEN {[fs |-> fs, ret |-> Err("RemoveError")]}
             ELSE LET fs1 == fs_remove_file(fs, entry)
                      expiry_file_path == entry \o EXPIRY_FILE_EXT
                  IN IF removable(fs1, expiry_file_path)
                     THEN clear_entries_strict(
                              fs_remove_file(fs1, expiry_file_path),
                              regex, entries \ {entry}, stale)
                     ELSE {[fs |-> fs1, ret |-> Err("RemoveError")]}
        ELSE clear_entries_strict(fs, regex, entries \ {entry}, stale)
        : entry \in entries}

RECURSIVE clear_entries_content_only(_, _, _, _)
clear_entries_content_only(fs, regex, entries, stale) ==
    IF entries = {} THEN {[fs |-> fs, ret |-> Ok(<<>>)]}
    ELSE UNION {
        IF ~stale /\ entry \notin DOMAIN fs.files
        THEN clear_entries_content_only(fs, regex, entries \ {entry}, stale)
        ELSE IF is_match(regex, entry)
        THEN IF ~removable(fs, entry)
             THEN {[fs |-> fs, ret |-> Err("RemoveError")]}
             ELSE clear_entries_content_only(fs_remove_file(fs, entry),
                                             regex, entries \ {entry}, stale)
        ELSE clear_entries_content_only(fs, regex, entries \ {entry}, stale)
        : entry \in entries}

\* The while-let loop of clear_cache_pattern over the entries read_dir has
\* still to yield, in any order: the set of the outcomes over all orders.
\* readdir leaves open whether a file removed after the directory was opened
\* is still yielded: stale says so.
RECURSIVE clear_entries(_, _, _, _)
clear_entries(fs, regex, entries, stale) ==
    IF entries = {} THEN {[fs |-> fs, ret |-> Ok(<<>>)]}
    ELSE UNION {
        IF ~stale /\ entry \notin DOMAIN fs.files
        THEN clear_entries(fs, regex, entries \ {entry}, stale)
        ELSE IF is_match(regex, entry)
        THEN IF ~removable(fs, entry)
             THEN {[fs |-> fs, ret |-> Err("RemoveError")]}
             ELSE LET fs1 == fs_remove_file(fs, entry)
                      expiry_file_path == entry \o EXPIRY_FILE_EXT
                      fs2 == IF removable(fs1, expiry_file_path)
                             THEN fs_remove_file(fs1, expiry_file_path)
                             ELSE fs1
                  IN clear_entries(fs2, regex, entries \ {entry}, stale)
        ELSE clear_entries(fs, regex, entries \ {entry}, stale)
        : entry \in entries}

\* CacheManager::clear_cache_pattern: read_dir, then the loop
clear_cache_pattern(fs, regex, stale) ==
    clear_entries(fs, regex, DOMAIN fs.files, stale)

\* The while-let loop of set_expired_pattern, run when the clock shows t:
\* the set of the outcomes over all orders of the entries
RECURSIVE expire_entries(_, _, _, _)
expire_entries(fs, regex, entries, t) ==
    IF entries = {} THEN {[fs |-> fs, ret |-> Ok(<<>>)]}
    ELSE UNION {
        LET stem == strip_suffix(entry, EXPIRY_FILE_EXT)
            matches == stem # None /\ is_match(regex, stem[1])
        IN IF matches
           THEN expire_entries(
                    set_expiry_for_path(fs, entry, expire_in_seconds(0, None, t)),
                    regex, entries \ {entry}, t)
           ELSE expire_entries(fs, regex, entries \ {entry}, t)
        : entry \in entries}

\* CacheManager::set_expired_pattern: read_dir, then the loop
set_expired_pattern(fs, regex, t) ==
    expire_entries(fs, regex, DOMAIN fs.files, t)

(***************************************************************************)
(* Inputs.  Resource keys are file-name shaped and never end in the        *)
(* metadata suffix (the callers' obligation).                              *)
(***************************************************************************)
a1 == <<"a", "1">>
a2 == <<"a", "2">>
b1 == <<"b", "1">>

Keys == {a1, a2, b1}

Contents == {<<1>>, <<2>>}

\* Option<ETag>: no token, the empty token, the token "x"
ETags == {None, Some(<<>>), Some(<<120>>)}

Expiries == {Never} \cup {AtUnixTimestamp(d, e) : d \in 0..MaxDur, e \in ETags}

FetchResults ==
    {FetchFailed} \cup {NotModified(e) : e \in Expiries}
                  \cup {Modified(c, e) : c \in Contents, e \in Expiries}

\* the patterns ^a, 1$ and \.expiry$
Regexes ==
    {[anchor |-> "start", ch |-> "a"], [anchor |-> "end", ch |-> "1"],
     [anchor |-> "end", ch |-> EXPIRY_FILE_EXT[1]]}

NoWrites == [files |-> files, written |-> {}]

(***************************************************************************)
(* State machine: one action per public operation of CacheManager, run to  *)
(* completion, and the passing of time.  last records the latest call; a   *)
(* write also records whether it directly follows a write to the same key, *)
(* a get_or_write what its read step returned, whether the content file    *)
(* existed when it was called, the bytes its metadata file held after the  *)
(* instant and whether it directly follows a write of the key without a    *)
(* token, a clear_cache_pattern the names the                              *)
(* directory held, a read and a set_expired_pattern the time of the call.  *)
(***************************************************************************)
NoFaults == [read |-> {}, remove |-> {}]

NoCalls == <<>>

NotResized == [op |-> "none"]

Init ==
    /\ files = <<>>
    /\ now = 0
    /\ last = [op |-> "for_dir"]
    /\ faults = NoFaults
    /\ calls = NoCalls
    /\ resized = NotResized

Tick ==
    /\ now < MaxNow
    /\ now' = now + 1
    /\ UNCHANGED <<files, last, faults, calls, resized>>

ReadCacheFile(resource, policy) ==
    /\ last' = [op |-> "read_cache_file", key |-> resource, policy |-> policy,
                at |-> now,
                ret |-> read_cache_file(files, resource, policy, now)]
    /\ UNCHANGED <<files, now, faults, calls, resized>>

WriteCacheFile(resource, content, expiry) ==
    LET fs == write_cache_file(NoWrites, resource, content, expiry) IN
    /\ files' = fs.files
    /\ last' = [op |-> "write_cache_file", key |-> resource,
                content |-> content, expiry |-> expiry,
                second |-> last.op = "write_cache_file" /\ last.key = resource,
                written |-> fs.written, ret |-> Ok(<<>>)]
    /\ UNCHANGED <<now, faults, calls, resized>>

\* the answers the fetch callback of a get_or_write call may give: none when
\* the read step fails or yields Fresh, since the callback is not invoked
Answers(resource, policy) ==
    LET file == read_cache_file(files, resource, policy, now) IN
    IF file.ok /\ file.val.tag \in {"Expired", "None"}
    THEN FetchResults ELSE {NotFetched}

GetOrWrite(resource, policy, fr) ==
    LET r == get_or_write(NoWrites, resource, policy, fr, now) IN
    /\ fr \in Answers(resource, policy)
    /\ files' = r.fs.files
    /\ last' = [op |-> "get_or_write", key |-> resource, policy |-> policy,
                fr |-> fr, cached |-> cache_path(resource) \in DOMAIN files,
                stored |-> LET meta == cache_meta_path(resource) IN
                           IF meta \in DOMAIN files /\ Len(files[meta]) >= OFFSET
                           THEN Some(SubSeq(files[meta], OFFSET + 1, Len(files[meta])))
                           ELSE None,
                tokenless |-> /\ last.op = "write_cache_file"
                              /\ last.key = resource
                              /\ etag_of(last.expiry) = None,
                read |-> r.read,
                fetched |-> r.fetched, written |-> r.fs.written,
                ret |-> r.ret]
    /\ UNCHANGED <<now, faults, calls, resized>>

ClearCachePattern(regex, stale) ==
    \E r \in clear_cache_pattern(NoWrites, regex, stale) :
        /\ files' = r.fs.files
        /\ last' = [op |-> "clear_cache_pattern", regex |-> regex,
                    stale |-> stale, had |-> DOMAIN files,
                    written |-> r.fs.written, ret |-> r.ret]
        /\ UNCHANGED <<now, faults, calls, resized>>

SetExpiredPattern(regex) ==
    \E r \in set_expired_pattern(NoWrites, regex, now) :
        /\ files' = r.fs.files
        /\ last' = [op |-> "set_expired_pattern", regex |-> regex,
                    at |-> now,
                    written |-> r.fs.written, ret |-> r.ret]
        /\ UNCHANGED <<now, faults, calls, resized>>

\* The calls on one key, with every input
MainKeys == {a1}

Next ==
    \/ Tick
    \/ \E k \in MainKeys, p \in CachePolicy : ReadCacheFile(k, p)
    \/ \E k \in MainKeys, c \in Contents, e \in Expiries : WriteCacheFile(k, c, e)
    \/ \E k \in MainKeys, p \in CachePolicy, fr \in FetchResults \cup {NotFetched} :
            GetOrWrite(k, p, fr)
    \/ \E x \in Regexes, st \in BOOLEAN : ClearCachePattern(x, st)
    \/ \E x \in Regexes : SetExpiredPattern(x)

Spec == Init /\ [][Next]_vars

(***************************************************************************)
(* Pattern maintenance over the keys a1, a2 and b1: entries are written    *)
(* with or without a metadata file, cleared and force-expired.             *)
(***************************************************************************)
PatternContents == {<<1>>}

PatternExpiries == {Never, AtUnixTimestamp(MaxDur, Some(<<120>>))}

NextPattern ==
    \/ Tick
    \/ \E k \in Keys, c \in PatternContents, e \in PatternExpiries :
            WriteCacheFile(k, c, e)
    \/ \E x \in Regexes, st \in BOOLEAN : ClearCachePattern(x, st)
    \/ \E x \in Regexes : SetExpiredPattern(x)

SpecPattern == Init /\ [][NextPattern]_vars

(***************************************************************************)
(* The cache directory under a hostile environment: the reads or the       *)
(* removals of a file start to fail (permissions, I/O errors), a metadata  *)
(* file gets bytes that are not UTF-8.  Every such step resets last.       *)
(***************************************************************************)
DenyRead(path) ==
    /\ path \in DOMAIN files
    /\ faults.read = {}
    /\ faults' = [faults EXCEPT !.read = {path}]
    /\ last' = [op |-> "fault"]
    /\ UNCHANGED <<files, now, calls, resized>>

DenyRemove(path) ==
    /\ path \in DOMAIN files
    /\ faults.remove = {}
    /\ faults' = [faults EXCEPT !.remove = {path}]
    /\ last' = [op |-> "fault"]
    /\ UNCHANGED <<files, now, calls, resized>>

CorruptMetadata(resource) ==
    LET meta == cache_meta_path(resource) IN
    /\ meta \in DOMAIN files
    /\ Len(files[meta]) <= OFFSET + 1
    /\ files' = [files EXCEPT ![meta] = @ \o <<255>>]
    /\ last' = [op |-> "fault"]
    /\ UNCHANGED <<now, faults, calls, resized>>

FaultKeys == {a1, a2}

FaultAnswers ==
    {FetchFailed, NotFetched} \cup {Modified(<<2>>, e) : e \in PatternExpiries}

NextFaults ==
    \/ \E k \in FaultKeys, c \in PatternContents, e \in PatternExpiries :
            WriteCacheFile(k, c, e)
    \/ \E k \in FaultKeys, p \in CachePolicy : ReadCacheFile(k, p)
    \/ \E k \in FaultKeys, p \in CachePolicy, fr \in FaultAnswers :
            GetOrWrite(k, p, fr)
    \/ \E x \in Regexes, st \in BOOLEAN : ClearCachePattern(x, st)
    \/ \E k \in FaultKeys : DenyRead(cache_path(k)) \/ DenyRead(cache_meta_path(k))
    \/ \E k \in FaultKeys : DenyRemove(cache_path(k)) \/ DenyRemove(cache_meta_path(k))
    \/ \E k \in FaultKeys : CorruptMetadata(k)

SpecFaults == Init /\ [][NextFaults]_vars

(***************************************************************************)
(* Overlapping get_or_write calls on the key a1.  A call advances one file *)
(* operation at a time: the reads of the content file and of the metadata  *)
(* file that read_cache_file joins, in either order; then the              *)
(* classification and the fetch callback; then the file writes of          *)
(* write_cache_file or set_expiry_for_path, in either order (join! over    *)
(* operations that run on the blocking thread pool).  A call records the   *)
(* bytes its reads saw (seen), the writes it still has to do (todo) and    *)
(* the value it returns.                                                   *)
(***************************************************************************)
ConcurrentExpiries ==
    {Never, AtUnixTimestamp(0, Some(<<120>>)), AtUnixTimestamp(MaxDur, Some(<<120>>))}

ConcurrentAnswers ==
    {FetchFailed, NotFetched, NotModified(AtUnixTimestamp(MaxDur, Some(<<120>>)))}
        \cup {Modified(c, e) : c \in Contents, e \in ConcurrentExpiries}

\* get_or_write is entered: read_cache_file returns at once under
\* IgnoreCached and reads the two files otherwise
StartCall(resource, policy) ==
    /\ Len(calls) < MaxCalls
    /\ calls' = Append(calls,
            [pc |-> "read", key |-> resource, policy |-> policy,
             toread |-> IF policy = "IgnoreCached" THEN {}
                        ELSE {cache_path(resource), cache_meta_path(resource)},
             seen |-> <<>>, read |-> None, fr |-> NotFetched,
             fetched |-> <<>>, todo |-> <<>>, ret |-> None])
    /\ UNCHANGED <<files, now, last, faults, resized>>

\* one of the two reads of read_cache_file
ReadFile(c, path) ==
    /\ c \in DOMAIN calls
    /\ calls[c].pc = "read"
    /\ path \in calls[c].toread
    /\ calls' = [calls EXCEPT
            ![c].toread = @ \ {path},
            ![c].seen = IF path \in DOMAIN files
                        THEN [q \in DOMAIN @ \cup {path} |->
                                 IF q = path THEN files[path] ELSE @[q]]
                        ELSE @]
    /\ UNCHANGED <<files, now, last, faults, resized>>

\* the match of get_or_write on what the reads saw, with the callback's
\* answer fr: the writes the chosen arm makes are left to be done
Fetch(c, fr) ==
    /\ c \in DOMAIN calls
    /\ calls[c].pc = "read"
    /\ calls[c].toread = {}
    /\ LET call == calls[c]
           file == read_cache_file(call.seen, call.key, call.policy, now)
           r == get_or_write([files |-> call.seen, written |-> {}],
                             call.key, call.policy, fr, now)
           todo == [q \in r.fs.written |-> r.fs.files[q]]
       IN /\ fr \in (IF file.ok /\ file.val.tag \in {"Expired", "None"}
                      THEN ConcurrentAnswers \ {NotFetched} ELSE {NotFetched})
          /\ calls' = [calls EXCEPT
                  ![c].pc = IF r.fs.written = {} THEN "done" ELSE "write",
                  ![c].read = Some(file),
                  ![c].fr = fr,
                  ![c].fetched = r.fetched,
                  ![c].todo = todo,
                  ![c].ret = Some(r.ret)]
    /\ UNCHANGED <<files, now, last, faults, resized>>

\* one of the file writes of the call; the call returns after the last
WriteFile(c, path) ==
    /\ c \in DOMAIN calls
    /\ calls[c].pc = "write"
    /\ path \in DOMAIN calls[c].todo
    /\ files' = fs_write(NoWrites, path, calls[c].todo[path]).files
    /\ calls' = [calls EXCEPT
            ![c].todo = [q \in DOMAIN @ \ {path} |-> @[q]],
            ![c].pc = IF DOMAIN calls[c].todo = {path} THEN "done" ELSE "write"]
    /\ UNCHANGED <<now, last, faults, resized>>

NextConcurrent ==
    \/ \E c \in PatternContents, e \in PatternExpiries :
            calls = NoCalls /\ WriteCacheFile(a1, c, e)
    \/ \E p \in CachePolicy : StartCall(a1, p)
    \/ \E c \in 1..MaxCalls : ReadFile(c, cache_path(a1)) \/ ReadFile(c, cache_meta_path(a1))
    \/ \E c \in 1..MaxCalls, fr \in ConcurrentAnswers : Fetch(c, fr)
    \/ \E c \in 1..MaxCalls : WriteFile(c, cache_path(a1)) \/ WriteFile(c, cache_meta_path(a1))

SpecConcurrent == Init /\ [][NextConcurrent]_vars

(***************************************************************************)
(* SongBatch::resize (src/app/models/main.rs).  A song is its id; a Vec is *)
(* a sequence.  Dividing by a batch size of zero panics.                   *)
(***************************************************************************)
Batch(offset, batch_size, total) ==
    [offset |-> offset, batch_size |-> batch_size, total |-> total]

SongBatch(songs, batch) == [songs |-> songs, batch |-> batch]

min(a, b) == IF a <= b THEN a ELSE b

RECURSIVE resize_map_offset_by_index(_, _, _, _, _)
resize_map_offset_by_index(songs, batch, batch_size, i, iter_count) ==
    IF i >= iter_count THEN <<>>
    ELSE LET offset == batch.offset + i
             new_batch == Batch(offset, batch_size, batch.total)
             drain_upper == min(batch_size, Len(songs))
             new_songs == SubSeq(songs, 1, drain_upper)
         IN <<SongBatch(new_songs, new_batch)>> \o
            resize_map_offset_by_index(SubSeq(songs, drain_upper + 1, Len(songs)),
                                       batch, batch_size, i + 1, iter_count)

\* (i..iter_count).map(|i| ..).collect() of resize: each step drains the
\* front of what is left of songs
RECURSIVE resize_map(_, _, _, _, _)
resize_map(songs, batch, batch_size, i, iter_count) ==
    IF i >= iter_count THEN <<>>
    ELSE LET offset == batch.offset + i * batch_size
             new_batch == Batch(offset, batch_size, batch.total)
             drain_upper == min(batch_size, Len(songs))
             new_songs == SubSeq(songs, 1, drain_upper)
         IN <<SongBatch(new_songs, new_batch)>> \o
            resize_map(SubSeq(songs, drain_upper + 1, Len(songs)),
                       batch, batch_size, i + 1, iter_count)

\* SongBatch::resize
resize(self, batch_size) ==
    IF batch_size > self.batch.batch_size
    THEN Ok(<<SongBatch(self.songs, [self.batch EXCEPT !.batch_size = batch_size])>>)
    ELSE IF batch_size = 0 THEN Err("Panic")
    ELSE LET n == Len(self.songs)
             iter_count == (n \div batch_size)
                           + (IF n % batch_size > 0 THEN 1 ELSE 0)
         IN Ok(resize_map(self.songs, self.batch, batch_size, 0, iter_count))

\* the songs "1", "2", .. of a batch of n songs
Songs(n) == [i \in 1..n |-> i]

SongBatches ==
    {SongBatch(Songs(n), Batch(offset, batch_size, total)) :
        n \in 0..MaxSongs, offset \in 0..MaxOffset,
        batch_size \in 0..MaxBatchSize, total \in 0..MaxTotal}

InitResize ==
    /\ files = <<>>
    /\ now = 0
    /\ last = [op |-> "for_dir"]
    /\ faults = NoFaults
    /\ calls = NoCalls
    /\ resized \in {[op |-> "new", self |-> sb, batch_size |-> b] :
                      sb \in SongBatches, b \in 0..MaxBatchSize}

Resize ==
    /\ resized.op = "new"
    /\ resized' = [op |-> "resize", self |-> resized.self,
                  batch_size |-> resized.batch_size,
                  ret |-> resize(resized.self, resized.batch_size)]
    /\ UNCHANGED <<files, now, last, faults, calls>>

NextResize == Resize

SpecResize == InitResize /\ [][NextResize]_vars

(***************************************************************************)
(* Properties.  NextRead is the result of a read issued in the current     *)
(* state; RecordedSecs the instant a metadata file records, in seconds.    *)
(***************************************************************************)
NextRead(resource, policy) == read_cache_file(files, resource, policy, now)

Cached(resource) == cache_path(resource) \in DOMAIN files

HasMeta(resource) == cache_meta_path(resource) \in DOMAIN files

RecordedSecs(resource) ==
    from_be_bytes(SubSeq(files[cache_meta_path(resource)], 1, OFFSET))

WholeSeconds(expiry) ==
    expiry.tag = "Never" \/ expiry.duration % TicksPerSec = 0

\* an expiry whose instant is in whole seconds and whose token is present
\* (possibly empty), or Never
WithToken(expiry) ==
    /\ WholeSeconds(expiry)
    /\ expiry.tag = "AtUnixTimestamp" => expiry.etag # None

JustWritten == last.op = "write_cache_file" /\ last.ret.ok

\* The policy table: the classification of present content with the given
\* bytes and token, expired or not
Classification(policy, bytes, token, expired) ==
    CASE policy = "IgnoreCached" -> CacheFileNone
      [] policy = "IgnoreExpiry" -> Fresh(bytes)
      [] policy = "Revalidate" -> Expired(bytes, token)
      [] policy = "Default" -> IF expired THEN Expired(bytes, token) ELSE Fresh(bytes)

\* C1: a read returns the classification of the policy table: None for an
\* absent content file under every policy; for the entry just written with
\* bytes B and token T, the table's cell for the policy with exactly B and T,
\* where the entry counts as expired when its metadata file exists and
\* records an instant before now.
C1_PolicyTable ==
    /\ \A k \in Keys, p \in CachePolicy :
          ~Cached(k) => NextRead(k, p) = Ok(CacheFileNone)
    /\ JustWritten =>
          \A p \in CachePolicy :
              NextRead(last.key, p) =
                  Ok(Classification(p, last.content, etag_of(last.expiry),
                        /\ HasMeta(last.key)
                        /\ now > from_secs(RecordedSecs(last.key))))

\* C2: after a successful write_cache_file(key, B, E), a read of the key
\* under IgnoreExpiry returns Fresh(B), whatever was stored before.
C2_RoundTrip ==
    JustWritten => NextRead(last.key, "IgnoreExpiry") = Ok(Fresh(last.content))

C2_Witness ==
    /\ JustWritten
    /\ last.second
    /\ last.expiry = Never
    /\ HasMeta(last.key)
    /\ NextRead(last.key, "IgnoreExpiry") = Ok(Fresh(last.content))

\* C3: the metadata file written for AtUnixTimestamp(instant, token), instant
\* in whole seconds, decodes to the identical value: same instant, same
\* optional token (absent stays absent, empty stays empty).
C3_CodecRoundTrip ==
    (JustWritten /\ last.expiry.tag = "AtUnixTimestamp" /\ WholeSeconds(last.expiry))
        => read_expiry_file(files, last.key) = Ok(last.expiry)

\* C4: a Default-policy read of present content is Expired exactly when the
\* clock at the read is strictly after the recorded instant; at the recorded
\* instant itself it is Fresh, and without a recorded expiry it is Fresh.
C4_StrictExpiration ==
    (/\ last.op = "read_cache_file"
     /\ last.policy = "Default"
     /\ Cached(last.key))
        => /\ last.ret.ok
           /\ last.ret.val.tag \in {"Fresh", "Expired"}
           /\ last.ret.val.buf = files[cache_path(last.key)]
           /\ IF HasMeta(last.key)
              THEN /\ (last.ret.val.tag = "Expired")
                         <=> (last.at > RecordedSecs(last.key) * TicksPerSec)
                   /\ (last.at = RecordedSecs(last.key) * TicksPerSec)
                         => last.ret.val.tag = "Fresh"
              ELSE last.ret.val.tag = "Fresh"

C4_Witness ==
    /\ last.op = "read_cache_file"
    /\ last.policy = "Default"
    /\ Cached(last.key)
    /\ HasMeta(last.key)
    /\ RecordedSecs(last.key) > 0
    /\ last.at = RecordedSecs(last.key) * TicksPerSec
    /\ last.ret = Ok(Fresh(files[cache_path(last.key)]))

\* the latest call was a get_or_write whose read step returned the given
\* class and whose fetch callback answered with the given kind
GetOrWriteCase(class, answer) ==
    /\ last.op = "get_or_write"
    /\ last.read.ok
    /\ last.read.val.tag = class
    /\ last.fr.tag = answer

\* C5: a get_or_write that read Expired(bytes, token) and whose fetch
\* answered NotModified returns the bytes the read found, performs no write
\* to the content file (the metadata file is the only path it may write) and
\* leaves the content file holding those bytes.
C5_NotModifiedKeepsContent ==
    GetOrWriteCase("Expired", "NotModified")
        => /\ last.ret = Ok(last.read.val.buf)
           /\ cache_path(last.key) \notin last.written
           /\ last.written \subseteq {cache_meta_path(last.key)}
           /\ fs_read(files, cache_path(last.key)) = Ok(last.read.val.buf)

C5_Witness ==
    /\ GetOrWriteCase("Expired", "NotModified")
    /\ last.ret = Ok(files[cache_path(last.key)])
    /\ last.written = {cache_meta_path(last.key)}

\* C6: after a get_or_write that read Expired and was answered
\* NotModified(new_expiry), a Default-policy read of the key is Fresh exactly
\* when new_expiry is not expired at the read, and the token reported for
\* the entry is the token of new_expiry.  Stated for new_expiry = Never and
\* for new_expiry with a whole-second instant and a token.
C6_NotModifiedSetsExpiry ==
    (GetOrWriteCase("Expired", "NotModified") /\ last.ret.ok
     /\ WithToken(last.fr.expiry))
        => /\ NextRead(last.key, "Default").ok
           /\ (NextRead(last.key, "Default").val.tag = "Fresh")
                 <=> ~is_expired(last.fr.expiry, now)
           /\ NextRead(last.key, "Revalidate")
                 = Ok(Expired(files[cache_path(last.key)],
                              etag_of(last.fr.expiry)))

\* C7: a get_or_write called for a key with no content file whose fetch
\* answered NotModified fails with NoContent and has written no file:
\* neither the content file nor the metadata file of the key exists after.
C7_NoContentWritesNothing ==
    (last.op = "get_or_write" /\ ~last.cached /\ last.fr.tag = "NotModified")
        => /\ last.ret = Err("NoContent")
           /\ last.written = {}
           /\ ~Cached(last.key)
           /\ ~HasMeta(last.key)

C7_Witness ==
    /\ GetOrWriteCase("None", "NotModified")
    /\ last.fr.expiry.tag = "AtUnixTimestamp"
    /\ ~last.cached
    /\ ~Cached(last.key)
    /\ ~HasMeta(last.key)
    /\ last.ret = Err("NoContent")
    /\ last.written = {}

\* C10: after two successive writes to one key the entry is the second
\* write's: the content file holds its bytes and the expiry record read back
\* is its expiry (Never when it was written with Never).  Stated for second
\* expiries Never and those with a whole-second instant and a token.
C10_SecondWriteReplaces ==
    (JustWritten /\ last.second /\ WithToken(last.expiry))
        => /\ fs_read(files, cache_path(last.key)) = Ok(last.content)
           /\ read_expiry_file(files, last.key) = Ok(last.expiry)

StartsWithA == [anchor |-> "start", ch |-> "a"]

\* C8: with a1, a2 and b1 cached, each with its content file and its
\* metadata file, clear_cache_pattern(^a) removes the four files of a1 and a2
\* and neither removes nor writes the two files of b1.
C8_ClearScope ==
    (/\ last.op = "clear_cache_pattern"
     /\ last.regex = StartsWithA
     /\ last.had = {cache_path(k) : k \in Keys} \cup {cache_meta_path(k) : k \in Keys})
        => /\ \A k \in {a1, a2} : ~Cached(k) /\ ~HasMeta(k)
           /\ Cached(b1) /\ HasMeta(b1)
           /\ last.written \cap {cache_path(b1), cache_meta_path(b1)} = {}

\* C9: once set_expired_pattern has run, a later Default-policy read of any
\* cached key that matches the pattern returns Expired with the stored bytes
\* and no token.
C9_ExpireMatching ==
    (last.op = "set_expired_pattern" /\ now > last.at)
        => \A k \in Keys :
              (is_match(last.regex, k) /\ Cached(k))
                  => NextRead(k, "Default") = Ok(Expired(files[cache_path(k)], None))

\* C11: a get_or_write whose read step yields Fresh(bytes) returns those
\* bytes without invoking the fetch callback and without writing a file; no
\* get_or_write invokes the callback more than once.
C11_FreshSkipsFetch ==
    last.op = "get_or_write"
        => /\ Len(last.fetched) <= 1
           /\ (last.read.ok /\ last.read.val.tag = "Fresh")
                 => /\ last.ret = Ok(last.read.val.buf)
                    /\ last.fetched = <<>>
                    /\ last.written = {}

C11_Witness ==
    /\ last.op = "get_or_write"
    /\ last.read.ok
    /\ last.read.val.tag = "Fresh"
    /\ last.policy = "Default"
    /\ HasMeta(last.key)
    /\ last.ret = Ok(files[cache_path(last.key)])
    /\ last.fetched = <<>>

\* C13: the fetch callback receives no token when there is nothing to
\* revalidate: in a get_or_write for a key without content file, or for the
\* entry just written without a token, the callback's argument is None.
C13_NoTokenNoArgument ==
    (/\ last.op = "get_or_write"
     /\ last.fetched # <<>>
     /\ ~last.cached \/ last.tokenless)
        => last.fetched = <<None>>

\* C14: under IgnoreCached get_or_write invokes fetch whatever is stored, and
\* when fetch answers Modified(new_bytes, new_expiry) it returns new_bytes
\* and the disk holds new_bytes and new_expiry (in whole seconds, with a
\* token) for the key.
C14_IgnoreCachedBypasses ==
    (last.op = "get_or_write" /\ last.policy = "IgnoreCached")
        => /\ last.fetched = <<None>>
           /\ (last.fr.tag = "Modified" /\ WithToken(last.fr.expiry))
                 => /\ last.ret = Ok(last.fr.fresh)
                    /\ fs_read(files, cache_path(last.key)) = Ok(last.fr.fresh)
                    /\ read_expiry_file(files, last.key) = Ok(last.fr.expiry)

\* the token a metadata file holds: the bytes after the instant, when there
\* are some and they are UTF-8
StoredToken(remainder) ==
    /\ remainder # None
    /\ remainder[1] # <<>>
    /\ from_utf8_ok(remainder[1]) # None

\* C12: when get_or_write invokes fetch under Default or Revalidate for a
\* key whose content file and metadata file with a token T are on disk, the
\* callback's argument is Some(T).
C12_StoredTokenReachesFetch ==
    (/\ last.op = "get_or_write"
     /\ last.policy \in {"Default", "Revalidate"}
     /\ last.fetched # <<>>
     /\ last.cached
     /\ StoredToken(last.stored))
        => last.fetched = <<Some(last.stored[1])>>

\* C17: a Revalidate or Default read of a key whose content file is present
\* and readable and whose metadata file exists but cannot be read returns
\* Err(ReadError).
C17_MetadataReadErrorSurfaces ==
    (/\ last.op = "read_cache_file"
     /\ last.policy \in {"Revalidate", "Default"}
     /\ Cached(last.key)
     /\ cache_path(last.key) \notin faults.read
     /\ HasMeta(last.key)
     /\ cache_meta_path(last.key) \in faults.read)
        => last.ret = Err("ReadError")

\* C18: a Revalidate or Default read of a key whose metadata file holds,
\* after its first 8 bytes, bytes that are not UTF-8 returns
\* Err(ConversionError).
C18_BadTokenSurfaces ==
    (/\ last.op = "read_cache_file"
     /\ last.policy \in {"Revalidate", "Default"}
     /\ Cached(last.key)
     /\ HasMeta(last.key)
     /\ faults.read = {}
     /\ LET buffer == files[cache_meta_path(last.key)] IN
        /\ Len(buffer) > OFFSET
        /\ from_utf8_ok(SubSeq(buffer, OFFSET + 1, Len(buffer))) = None)
        => last.ret = Err("ConversionError")

\* the names of the directory a clear_cache_pattern call found that match
\* its pattern
Matching == {name \in last.had : is_match(last.regex, name)}

C20_NoOrphanMetadata ==
    \A k \in Keys : HasMeta(k) => Cached(k)

C20_Witness ==
    /\ last.op = "clear_cache_pattern"
    /\ last.ret.ok
    /\ \E k \in Keys :
          /\ cache_path(k) \in last.written
          /\ cache_meta_path(k) \in last.written
          /\ ~HasMeta(k)
          /\ ~Cached(k)

RECURSIVE Concat(_)
Concat(batches) ==
    IF batches = <<>> THEN <<>>
    ELSE Head(batches).songs \o Concat(Tail(batches))

\* C15: for a SongBatch of n songs and a requested size b with
\* 1 <= b <= the batch's batch_size, resize(b) returns ceil(n / b) batches
\* whose songs, concatenated in order, are the original songs; every batch
\* but the last holds exactly b songs; the i-th batch (from 0) has
\* batch_size b, the original total and the original offset plus i * b.
C15_ResizeSplits ==
    (/\ resized.op = "resize"
     /\ 1 <= resized.batch_size
     /\ resized.batch_size <= resized.self.batch.batch_size)
        => /\ resized.ret.ok
           /\ LET b == resized.batch_size
                  n == Len(resized.self.songs)
                  batches == resized.ret.val
              IN /\ Len(batches) = (n + b - 1) \div b
                 /\ Concat(batches) = resized.self.songs
                 /\ \A i \in 1..Len(batches) :
                       /\ i < Len(batches) => Len(batches[i].songs) = b
                       /\ batches[i].batch =
                             Batch(resized.self.batch.offset + (i - 1) * b, b,
                                   resized.self.batch.total)

C15_Witness ==
    /\ resized.op = "resize"
    /\ resized.batch_size = 2
    /\ resized.self.batch.batch_size = 3
    /\ Len(resized.self.songs) = 3
    /\ resized.self.batch.offset = 1
    /\ resized.ret.ok
    /\ Len(resized.ret.val) = 2
    /\ resized.ret.val[2].songs = <<3>>
    /\ resized.ret.val[2].batch.offset = 3

\* C16: when two overlapping get_or_write calls for one key have both read
\* Expired or None, both got Modified with an expiry instant from their
\* fetch and both returned, each has invoked its fetch once and the stored
\* entry is the result of one of the calls as a whole: the content file
\* and the metadata file hold the bytes and the expiry of the same call.
C16_LastWriterWhole ==
    (/\ Len(calls) = 2
     /\ \A c \in 1..2 :
           /\ calls[c].pc = "done"
           /\ calls[c].read[1].ok
           /\ calls[c].read[1].val.tag \in {"Expired", "None"}
           /\ calls[c].fr.tag = "Modified"
           /\ calls[c].fr.expiry.tag = "AtUnixTimestamp")
        => /\ \A c \in 1..2 : Len(calls[c].fetched) = 1
           /\ \E c \in 1..2 :
                 /\ fs_read(files, cache_path(a1)) = Ok(calls[c].fr.fresh)
                 /\ read_expiry_file(files, a1) = Ok(calls[c].fr.expiry)

====
